---- MODULE Spec2Model ----
(***************************************************************************)
(* echo-chat: conversation segmentation, the batched dual-embedding        *)
(* upload to the vector index, and the semaphore-bounded fact extraction.  *)
(*                                                                         *)
(* The sub-systems share the module; each has its own specifications       *)
(* (SpecSeg, SpecImport, SpecEmbed / SpecEmbedFault / SpecEmbedErr,        *)
(* SpecFacts / SpecFactsErr / SpecFactsStall, ...).  The variables of the  *)
(* sub-systems a specification does not run stay at the values Idle*       *)
(* gives them.                                                             *)
(***************************************************************************)
EXTENDS Integers, Sequences, FiniteSets, TLC

VARIABLES
    \* ---- conversation segmenter ----
    segImpl,        \* which segmenter runs: "importer" | "legacy"
    segG,           \* time_gap_threshold_minutes
    segMessages,    \* the caller's list of message dicts (mutated in place)
    segResult,      \* the list the function returned
    segPc,          \* "input" | "returned"
    \* ---- import into the message store (the segmenter's caller) ----
    recreate_db,    \* the recreate_db argument
    smsExists,      \* the source sms.db was there when the call was made
    kbExists,       \* the knowledge-base file (the message store) exists
    impPc,          \* "start" | "returned" | the exception the call raised
    kbAtCall,       \* the message store as the call found it
    \* ---- embedding pipeline ----
    embImpl,        \* "uploader" (qdrant_uploader.py) | "backend" (create_qdrant_db.py)
    embCfg,         \* [batch_size, sparse_batch_size, recreate_collection]
    store,          \* messages table, in ORDER BY timestamp_seconds order
    coll,           \* the Qdrant collection: [exists, hnsw, points]
    calls,          \* calls of the run so far, in order: vector store client and models
    embPc,          \* position of upload_knowledge_base_to_qdrant
    embI,           \* loop variable i of the batch loop (0-based offset)
    embJ,           \* loop variable j of the sparse sub-batch loop (0-based offset)
    denseOut,       \* batch_embeddings / batch_dense_embeddings
    sparseOut,      \* all_sparse_embeddings(_in_batch)
    embRun,         \* number of the run in progress (1, 2)
    afterRun1,      \* points of the collection when run 1 finished
    embLog,         \* per batch: what the models returned and what was upserted
    \* ---- fact extraction ----
    factImpl,       \* "backend" (fact_extraction.py) | "legacy" (create_facts.py)
    factCfg,        \* [max_concurrent, batch_size]
    hasMessages,    \* conversation -> whether the store returns messages for it
    orchPc,         \* orchestrator: "start" | "gather" | "sleep" | "finished" | "raised"
    batchStart,     \* loop variable i of the batch loop (0-based offset)
    taskPc,         \* conversation -> position of its task
    semValue,       \* free slots of the asyncio.Semaphore
    sessions,       \* sessions existing in the session service
    agentOut,       \* conversation -> what the agent call produced
    taskExc,        \* conversation -> exception carried while unwinding / task result
    facts,          \* committed rows of the facts table, in insert order
    factsAtStart,   \* the committed rows the run found in the table
    connPending,    \* rows inserted on the batch's shared connection, not committed
    sleeps          \* number of inter-batch sleeps performed

impVars  == <<recreate_db, smsExists, kbExists, impPc, kbAtCall>>
segVars  == <<segImpl, segG, segMessages, segResult, segPc, impVars>>
embVars  == <<embImpl, embCfg, store, coll, calls, embPc, embI, embJ, denseOut,
              sparseOut, embRun, afterRun1, embLog>>
factVars == <<factImpl, factCfg, hasMessages, orchPc, batchStart, taskPc, semValue,
              sessions, agentOut, taskExc, facts, factsAtStart, connPending, sleeps>>
vars     == <<segVars, embVars, factVars>>

(***************************************************************************)
(* Bounds of the model.                                                    *)
(***************************************************************************)
MaxSegMsgs == 3
MaxGapMinutes == 2

SecondsPerMinute == 60

Min(a, b) == IF a < b THEN a ELSE b

\* s[lo+1 .. hi] with Python slice semantics s[lo:hi] (0-based, clipped).
Slice(s, lo, hi) == SubSeq(s, lo + 1, Min(hi, Len(s)))

(***************************************************************************)
(* Conversation segmenter                                                  *)
(***************************************************************************)
NoConv == <<"unset">>

\* f'conv_{n}'
ConvLabel(n) == <<"conv_", n>>

\* A segmenter that measures the distance between two timestamps.
GapExceeded_abs(prev_ts, current_ts, threshold_minutes) ==
    \/ current_ts - prev_ts > threshold_minutes * SecondsPerMinute
    \/ prev_ts - current_ts > threshold_minutes * SecondsPerMinute

\* A segmenter that also splits at a gap equal to the threshold.
GapExceeded_ge(prev_ts, current_ts, threshold_minutes) ==
    current_ts - prev_ts >= threshold_minutes * SecondsPerMinute

\* (current_msg_ts - prev_msg_ts) / 60 > time_gap_threshold_minutes, the
\* division being exact (Python true division); stated without division.
GapExceeded(prev_ts, current_ts, threshold_minutes) ==
    current_ts - prev_ts > threshold_minutes * SecondsPerMinute

RECURSIVE AssignLoop(_, _, _, _)
AssignLoop(messages, i, conversation_id_counter, threshold) ==
    IF i > Len(messages) THEN messages
    ELSE LET c == IF GapExceeded(messages[i - 1].timestamp_seconds,
                                 messages[i].timestamp_seconds, threshold)
                  THEN conversation_id_counter + 1
                  ELSE conversation_id_counter
         IN  AssignLoop([messages EXCEPT ![i].conversation_id = ConvLabel(c)],
                        i + 1, c, threshold)

\* A segmenter that opens conversation 0 before looking at its input.
_assign_conversation_ids_eager(messages, time_gap_threshold_minutes) ==
    IF messages = <<>>
    THEN <<[timestamp_seconds |-> 0, conversation_id |-> ConvLabel(0)]>>
    ELSE AssignLoop([messages EXCEPT ![1].conversation_id = ConvLabel(0)],
                    2, 0, time_gap_threshold_minutes)

\* sms_importer._assign_conversation_ids: labels the dicts of the list it is
\* given and returns that list.
_assign_conversation_ids(messages, time_gap_threshold_minutes) ==
    IF messages = <<>> THEN <<>>
    ELSE AssignLoop([messages EXCEPT ![1].conversation_id = ConvLabel(0)],
                    2, 0, time_gap_threshold_minutes)

RECURSIVE LegacyLoop(_, _, _, _, _)
LegacyLoop(messages, processed_messages, i, current_conversation_id, threshold) ==
    IF i > Len(messages) THEN processed_messages
    ELSE IF i = 1
         THEN LegacyLoop(messages,
                         Append(processed_messages,
                                [messages[i] EXCEPT !.conversation_id =
                                     ConvLabel(current_conversation_id)]),
                         i + 1, current_conversation_id, threshold)
         ELSE LET prev_msg == processed_messages[i - 1]
                  c == IF GapExceeded(prev_msg.timestamp_seconds,
                                      messages[i].timestamp_seconds, threshold)
                       THEN current_conversation_id + 1
                       ELSE current_conversation_id
              IN  LegacyLoop(messages,
                             Append(processed_messages,
                                    [messages[i] EXCEPT !.conversation_id = ConvLabel(c)]),
                             i + 1, c, threshold)

\* sms_to_knowledge_base.assign_conversation_ids: appends the (labelled) dicts
\* of the input to a new list processed_messages.
assign_conversation_ids(messages, time_gap_threshold_minutes) ==
    IF messages = <<>> THEN <<>>
    ELSE LegacyLoop(messages, <<>>, 1, 0, time_gap_threshold_minutes)

RECURSIVE InlineLoop(_, _, _, _, _)
InlineLoop(raw_messages, processed_messages, i, current_conversation_id, gap_minutes) ==
    IF i > Len(raw_messages) THEN processed_messages
    ELSE LET c == IF \/ i = 1      \* last_message_date is None
                     \/ GapExceeded(raw_messages[i - 1].timestamp_seconds,
                                    raw_messages[i].timestamp_seconds, gap_minutes)
                  THEN current_conversation_id + 1
                  ELSE current_conversation_id
         IN  InlineLoop(raw_messages,
                        Append(processed_messages,
                               [raw_messages[i] EXCEPT !.conversation_id = ConvLabel(c)]),
                        i + 1, c, gap_minutes)

\* sms_to_vector_db.sms_db_to_qdrant, the loop that builds processed_messages
\* from the fetched rows (current_conversation_id = 0, last_message_date = None).
sms_db_to_qdrant_segment(raw_messages, conversation_gap_minutes) ==
    InlineLoop(raw_messages, <<>>, 1, 0, conversation_gap_minutes)

SegImpls == {"importer", "legacy", "inline"}

Segmenter(impl, messages, threshold) ==
    IF impl = "importer" THEN _assign_conversation_ids(messages, threshold)
    ELSE IF impl = "legacy" THEN assign_conversation_ids(messages, threshold)
    ELSE sms_db_to_qdrant_segment(messages, threshold)

\* Timestamps (seconds) around the one- and two-minute gaps, and the 3000 s
\* of the thirty-minute example.
TsChoices == {0, 59, 60, 61, 120, 181, 3000}

\* Thresholds (minutes): the small ones and the default conversation_gap_minutes.
DefaultGapMinutes == 30
GapChoices == (0..MaxGapMinutes) \cup {DefaultGapMinutes}

IsSorted(ts) == \A i \in 1..Len(ts) - 1 : ts[i] <= ts[i + 1]

SortedTimestampSeqs ==
    UNION {{ts \in [1..n -> TsChoices] : IsSorted(ts)} : n \in 0..MaxSegMsgs}

RawMessages(ts) ==
    [i \in 1..Len(ts) |-> [timestamp_seconds |-> ts[i], conversation_id |-> NoConv]]

\* Timestamp sequences in any order.
TimestampSeqs == UNION {[1..n -> TsChoices] : n \in 0..MaxSegMsgs}

\* No import is in progress.
IdleImp ==
    /\ recreate_db = FALSE /\ smsExists = FALSE /\ kbExists = FALSE
    /\ impPc = "idle" /\ kbAtCall = [exists |-> FALSE, rows |-> <<>>]

\* A caller that does not sort before calling the segmenter.
InitSegVarsAnyOrder ==
    /\ IdleImp
    /\ segImpl \in SegImpls
    /\ segG \in GapChoices
    /\ segMessages \in {RawMessages(ts) : ts \in TimestampSeqs}
    /\ segResult = <<>>
    /\ segPc = "input"

IdleSeg ==
    /\ IdleImp
    /\ segImpl = "none" /\ segG = 0 /\ segMessages = <<>>
    /\ segResult = <<>> /\ segPc = "idle"

InitSegVars ==
    /\ IdleImp
    /\ segImpl \in SegImpls
    /\ segG \in GapChoices
    /\ segMessages \in {RawMessages(ts) : ts \in SortedTimestampSeqs}
    /\ segResult = <<>>
    /\ segPc = "input"

\* One call of the segmenter.  The two functions set 'conversation_id' on the
\* dict objects of the caller's list, so the caller's list shows the labels;
\* the inline loop builds new dicts from the fetched rows, and raises
\* ValueError before the loop when no row was fetched.
Segment ==
    /\ segPc = "input"
    /\ segResult' = Segmenter(segImpl, segMessages, segG)
    /\ segMessages' = IF segImpl = "inline" THEN segMessages ELSE segResult'
    /\ segPc' = IF segImpl = "inline" /\ segMessages = <<>> THEN "raised"
                ELSE "returned"
    /\ UNCHANGED <<segImpl, segG, impVars, embVars, factVars>>

(***************************************************************************)
(* Embedding pipeline: upload_knowledge_base_to_qdrant                     *)
(*   "uploader" = src/qdrant_uploader.py                                   *)
(*   "backend"  = src/backend/echo-chat/data_processing/create_qdrant_db.py*)
(* A message row is [id, text, conversation_id, is_from_me]; date_iso and  *)
(* timestamp_seconds are copied to the payload like conversation_id and    *)
(* are left out.  The store is read in ORDER BY timestamp_seconds order.   *)
(***************************************************************************)
MaxStoreMsgs == 3
MaxBatchSize == 2
MaxSparseBatch == 2

EmbImpls == {"uploader", "backend"}
Texts == {"a", "b"}
NoId == <<"NULL">>

\* What the models compute for one text: a function of the text.
Dense(text) == <<"dense", text>>
Sparse(text) == <<"sparse", text>>
ExtraVec == <<"surplus">>

\* model.encode(batch_texts): one vector per text, in order.
DenseEncode(texts) == [k \in 1..Len(texts) |-> Dense(texts[k])]
\* list(sparse_model.embed(sub_batch_texts)): one embedding per text, in order.
SparseEmbed(texts) == [k \in 1..Len(texts) |-> Sparse(texts[k])]

\* A model that breaks its contract: one vector short, or one too many.
WrongCount(vectors, kind) ==
    IF kind = "fewer" THEN SubSeq(vectors, 1, Len(vectors) - 1)
    ELSE Append(vectors, ExtraVec)

\* uuid.uuid4(): a value never seen before, here named by run and position.
Uuid4(run, pos) == <<"uuid4", run, pos>>

\* A pipeline that gives every point a new uuid.
PointId_fresh(impl, msg, run, pos) == Uuid4(run, pos)

\* uploader: id=msg_id;  backend: id=msg.id or str(uuid.uuid4())
PointId(impl, msg, run, pos) ==
    IF impl = "backend" /\ msg.id = NoId THEN Uuid4(run, pos) ELSE msg.id

\* uploader: the payload dict with bool(is_from_me);
\* backend: Message(**row).model_dump(exclude={'id'}), is_from_me coerced to bool.
Payload(msg) ==
    [text |-> msg.text, conversation_id |-> msg.conversation_id,
     is_from_me |-> (msg.is_from_me # 0)]

\* A batch slice that runs one message into the next batch.
BatchMessages_overlap(messages, i, batch_size) == Slice(messages, i, i + batch_size + 1)

\* messages[i : i + batch_size]
BatchMessages(messages, i, batch_size) == Slice(messages, i, i + batch_size)
BatchTexts(batch) == [k \in 1..Len(batch) |-> batch[k].text]

\* A sub-batch slice that starts one text late.
SubBatchTexts_skip(batch_texts, j, sparse_batch_size) ==
    Slice(batch_texts, j + 1, j + sparse_batch_size)

\* batch_texts[j : j + sparse_batch_size]
SubBatchTexts(batch_texts, j, sparse_batch_size) ==
    Slice(batch_texts, j, j + sparse_batch_size)

\* Whether building the points of a batch raises.
\*   uploader: batch_embeddings[j], all_sparse_embeddings_in_batch[j] raise
\*             IndexError when a list is shorter than the batch;
\*   backend:  zip(batch_messages, all_sparse_embeddings, strict=True) raises
\*             ValueError when the lengths differ, batch_dense_embeddings[idx]
\*             raises IndexError when the dense list is shorter.
\* uploader: PointStruct(id=msg_id) with msg_id None (a NULL id column) fails
\* the validation of the required id field; the backend replaces a NULL id
\* (see PointId) and does not raise.
BuildRaises(impl, batch, dense, sparse) ==
    IF impl = "uploader"
    THEN \/ Len(dense) < Len(batch) \/ Len(sparse) < Len(batch)
         \/ \E k \in 1..Len(batch) : batch[k].id = NoId
    ELSE Len(sparse) # Len(batch) \/ Len(dense) < Len(batch)

\* points_to_upsert / points: position k takes message k, dense k, sparse k.
BuildPoints(impl, batch, dense, sparse, run, offset) ==
    [k \in 1..Len(batch) |->
        [id |-> PointId(impl, batch[k], run, offset + k),
         payload |-> Payload(batch[k]),
         dense |-> dense[k],
         sparse |-> sparse[k]]]

SeqRange(s) == {s[k] : k \in 1..Len(s)}

\* An upsert that replaces the whole content of the collection.
Upsert_replace(points, new) == SeqRange(new)

\* client.upsert: a point replaces the stored point of the same id.
Upsert(points, new) ==
    {p \in points : \A q \in SeqRange(new) : q.id # p.id} \cup SeqRange(new)

Call(op, arg) == [op |-> op, arg |-> arg]

\* Collection management of the two variants: the calls issued, in order.
\*   uploader (lines 96-114): recreate -> exists?, [delete], create(m=0)
\*                            else     -> exists?, [create(m=0)]
\*   backend  (lines 52-69):  recreate -> exists?, [delete];  then exists?,
\*                            [create with default HNSW]
ManageCalls(impl, recreate, exists) ==
    IF impl = "uploader"
    THEN IF recreate
         THEN <<Call("collection_exists", exists)>>
              \o (IF exists THEN <<Call("delete_collection", TRUE)>> ELSE <<>>)
              \o <<Call("create_collection", "deferred")>>
         ELSE <<Call("collection_exists", exists)>>
              \o (IF exists THEN <<>> ELSE <<Call("create_collection", "deferred")>>)
    ELSE (IF recreate
          THEN <<Call("collection_exists", exists)>>
               \o (IF exists THEN <<Call("delete_collection", TRUE)>> ELSE <<>>)
          ELSE <<>>)
         \o <<Call("collection_exists", exists /\ ~recreate)>>
         \o (IF exists /\ ~recreate THEN <<>>
             ELSE <<Call("create_collection", "default")>>)

\* The collection after one client call.
ApplyCall(c, call) ==
    IF call.op = "delete_collection"
    THEN [exists |-> FALSE, hnsw |-> "none", points |-> {}]
    ELSE IF call.op = "create_collection"
    THEN [exists |-> TRUE, hnsw |-> call.arg, points |-> {}]
    ELSE IF call.op = "update_collection"
    THEN [c EXCEPT !.hnsw = "standard"]
    ELSE c

RECURSIVE ApplyCalls(_, _)
ApplyCalls(c, cs) ==
    IF cs = <<>> THEN c ELSE ApplyCalls(ApplyCall(c, Head(cs)), Tail(cs))

StoreRow(k, text) ==
    [id |-> <<"uuid", k>>, text |-> text, conversation_id |-> ConvLabel(0),
     is_from_me |-> k % 2, timestamp_seconds |-> k]

\* Stores as import leaves them: every row has its own uuid as id.
Stores ==
    UNION {{[k \in 1..n |-> StoreRow(k, t[k])] : t \in [1..n -> Texts]} :
           n \in 0..MaxStoreMsgs}

\* database.insert_message: the INSERT names no id column, so the row's id
\* is NULL (id is TEXT PRIMARY KEY, which SQLite lets be NULL, repeatedly).
InsertedRow(k, text) == [StoreRow(k, text) EXCEPT !.id = NoId]

\* Stores holding rows written by import and rows written by insert_message.
StoresWithInserted ==
    UNION {{[k \in 1..n |-> IF ins[k] THEN InsertedRow(k, t[k]) ELSE StoreRow(k, t[k])] :
              t \in [1..n -> Texts], ins \in [1..n -> BOOLEAN]} :
           n \in 0..MaxStoreMsgs}

StalePoint ==
    [id |-> <<"uuid", 0>>, payload |-> Payload(StoreRow(0, "a")),
     dense |-> Dense("a"), sparse |-> Sparse("a")]

InitialCollections ==
    {[exists |-> FALSE, hnsw |-> "none", points |-> {}],
     [exists |-> TRUE, hnsw |-> "standard", points |-> {StalePoint}]}

IdleEmb ==
    /\ embImpl = "none"
    /\ embCfg = [batch_size |-> 1, sparse_batch_size |-> 1, recreate_collection |-> FALSE]
    /\ store = <<>>
    /\ coll = [exists |-> FALSE, hnsw |-> "none", points |-> {}]
    /\ calls = <<>> /\ embPc = "idle" /\ embI = 0 /\ embJ = 0
    /\ denseOut = <<>> /\ sparseOut = <<>> /\ embRun = 0 /\ afterRun1 = {}
    /\ embLog = <<>>

InitEmbVars ==
    /\ embImpl \in EmbImpls
    /\ embCfg \in [batch_size : 1..MaxBatchSize,
                   sparse_batch_size : 1..MaxSparseBatch,
                   recreate_collection : BOOLEAN]
    /\ store \in Stores
    /\ coll \in InitialCollections
    /\ calls = <<>> /\ embPc = "start" /\ embI = 0 /\ embJ = 0
    /\ denseOut = <<>> /\ sparseOut = <<>> /\ embRun = 1 /\ afterRun1 = {}
    /\ embLog = <<>>

InitEmbVarsInserted ==
    /\ embImpl \in EmbImpls
    /\ embCfg \in [batch_size : 1..MaxBatchSize,
                   sparse_batch_size : 1..MaxSparseBatch,
                   recreate_collection : BOOLEAN]
    /\ store \in StoresWithInserted
    /\ coll \in InitialCollections
    /\ calls = <<>> /\ embPc = "start" /\ embI = 0 /\ embJ = 0
    /\ denseOut = <<>> /\ sparseOut = <<>> /\ embRun = 1 /\ afterRun1 = {}
    /\ embLog = <<>>

CurrentBatch == BatchMessages(store, embI, embCfg.batch_size)

\* A fetch that writes the rows back as one conversation.
TableAfterFetch_relabelled(rows) ==
    [k \in 1..Len(rows) |-> [rows[k] EXCEPT !.conversation_id = rows[1].conversation_id]]

\* "SELECT id, text, ... FROM messages ORDER BY timestamp_seconds ASC" and
\* fetchall(): the rows are copied out, the table keeps them as they are.
TableAfterFetch(rows) == rows

\* Fetch the messages; "if not messages: return".
\* A pipeline that sets up the collection before it looks at what it fetched.
AfterFetch_setup(messages) == "collection"

\* "if not messages: return" right after the fetch, before any use of the
\* client; otherwise the pipeline goes on to set up the collection.
AfterFetch(messages) == IF messages = <<>> THEN "done" ELSE "collection"

EmbFetch ==
    /\ embPc = "start"
    /\ store' = TableAfterFetch(store)
    /\ embPc' = AfterFetch(store)
    /\ UNCHANGED <<embImpl, embCfg, coll, calls, embI, embJ, denseOut,
                   sparseOut, embRun, afterRun1, embLog, segVars, factVars>>

\* exists / delete / create, as the variant issues them.
ManageCollection ==
    /\ embPc = "collection"
    /\ LET cs == ManageCalls(embImpl, embCfg.recreate_collection, coll.exists)
       IN  /\ calls' = calls \o cs
           /\ coll' = ApplyCalls(coll, cs)
    /\ embI' = 0
    /\ embPc' = "dense"
    /\ UNCHANGED <<embImpl, embCfg, store, embJ, denseOut, sparseOut, embRun,
                   afterRun1, embLog, segVars, factVars>>

\* One dense encode call for the whole batch.
EncodeDense ==
    /\ embPc = "dense"
    /\ denseOut' = DenseEncode(BatchTexts(CurrentBatch))
    /\ calls' = Append(calls, Call("encode", BatchTexts(CurrentBatch)))
    /\ sparseOut' = <<>>
    /\ embJ' = 0
    /\ embPc' = "sparse"
    /\ UNCHANGED <<embImpl, embCfg, store, coll, embI, embRun, afterRun1,
                   embLog, segVars, factVars>>

\* One sparse embed call for the sub-batch at j, appended to the batch's list.
EncodeSparse ==
    /\ embPc = "sparse"
    /\ embJ < Len(CurrentBatch)
    /\ LET sub_batch_texts == SubBatchTexts(BatchTexts(CurrentBatch), embJ,
                                            embCfg.sparse_batch_size)
       IN  /\ sparseOut' = sparseOut \o SparseEmbed(sub_batch_texts)
           /\ calls' = Append(calls, Call("embed", sub_batch_texts))
    /\ embJ' = embJ + embCfg.sparse_batch_size
    /\ UNCHANGED <<embImpl, embCfg, store, coll, embPc, embI, denseOut,
                   embRun, afterRun1, embLog, segVars, factVars>>

\* The dense model returns one vector too few or too many.
EncodeDenseWrong ==
    /\ embPc = "dense"
    /\ \E kind \in {"fewer", "more"} :
          denseOut' = WrongCount(DenseEncode(BatchTexts(CurrentBatch)), kind)
    /\ calls' = Append(calls, Call("encode", BatchTexts(CurrentBatch)))
    /\ sparseOut' = <<>>
    /\ embJ' = 0
    /\ embPc' = "sparse"
    /\ UNCHANGED <<embImpl, embCfg, store, coll, embI, embRun, afterRun1,
                   embLog, segVars, factVars>>

\* The sparse model returns one embedding too few or too many for a sub-batch.
EncodeSparseWrong ==
    /\ embPc = "sparse"
    /\ embJ < Len(CurrentBatch)
    /\ LET sub_batch_texts == SubBatchTexts(BatchTexts(CurrentBatch), embJ,
                                            embCfg.sparse_batch_size)
       IN  /\ \E kind \in {"fewer", "more"} :
                 sparseOut' = sparseOut \o WrongCount(SparseEmbed(sub_batch_texts), kind)
           /\ calls' = Append(calls, Call("embed", sub_batch_texts))
    /\ embJ' = embJ + embCfg.sparse_batch_size
    /\ UNCHANGED <<embImpl, embCfg, store, coll, embPc, embI, denseOut,
                   embRun, afterRun1, embLog, segVars, factVars>>

LogEntry(batch, raised, points) ==
    [offset |-> embI, batch |-> batch, dense |-> denseOut, sparse |-> sparseOut,
     raised |-> raised, points |-> points, run |-> embRun]

\* Build the points of the batch and upsert them; an exception raised while
\* building leaves the function (nothing of the batch is upserted).
BuildAndUpsert ==
    /\ embPc = "sparse"
    /\ embJ >= Len(CurrentBatch)
    /\ IF BuildRaises(embImpl, CurrentBatch, denseOut, sparseOut)
       THEN /\ embPc' = "aborted"
            /\ embLog' = Append(embLog, LogEntry(CurrentBatch, TRUE, <<>>))
            /\ UNCHANGED <<coll, calls, embI>>
       ELSE LET points == BuildPoints(embImpl, CurrentBatch, denseOut, sparseOut,
                                      embRun, embI)
            IN  /\ coll' = [coll EXCEPT !.points = Upsert(coll.points, points)]
                /\ calls' = Append(calls, Call("upsert", Len(points)))
                /\ embLog' = Append(embLog, LogEntry(CurrentBatch, FALSE, points))
                /\ embI' = embI + embCfg.batch_size
                /\ embPc' = IF embI + embCfg.batch_size < Len(store) THEN "dense"
                            ELSE IF embImpl = "uploader" THEN "reconfigure"
                            ELSE "done"
    /\ UNCHANGED <<embImpl, embCfg, store, embJ, denseOut, sparseOut, embRun,
                   afterRun1, segVars, factVars>>

\* uploader only: client.update_collection(... HnswConfigDiff(m=16, ...)).
Reconfigure ==
    /\ embPc = "reconfigure"
    /\ calls' = Append(calls, Call("update_collection", "standard"))
    /\ coll' = ApplyCall(coll, Call("update_collection", "standard"))
    /\ embPc' = "done"
    /\ UNCHANGED <<embImpl, embCfg, store, embI, embJ, denseOut, sparseOut,
                   embRun, afterRun1, embLog, segVars, factVars>>

\* The pipeline is run again on the unchanged store.
SecondRun ==
    /\ embPc = "done"
    /\ embRun = 1
    /\ afterRun1' = coll.points
    /\ embRun' = 2
    /\ \E r \in BOOLEAN : embCfg' = [embCfg EXCEPT !.recreate_collection = r]
    /\ calls' = <<>>
    /\ embLog' = <<>>
    /\ embPc' = "start"
    /\ embI' = 0 /\ embJ' = 0 /\ denseOut' = <<>> /\ sparseOut' = <<>>
    /\ UNCHANGED <<embImpl, store, coll, segVars, factVars>>

\* model.encode or sparse_model.embed raises: nothing catches it, the
\* exception leaves upload_knowledge_base_to_qdrant.
EncodeRaises ==
    /\ \/ embPc = "dense"
       \/ embPc = "sparse" /\ embJ < Len(CurrentBatch)
    /\ embPc' = "aborted"
    /\ embLog' = Append(embLog, LogEntry(CurrentBatch, TRUE, <<>>))
    /\ UNCHANGED <<embImpl, embCfg, store, coll, calls, embI, embJ, denseOut,
                   sparseOut, embRun, afterRun1, segVars, factVars>>

\* client.upsert raises (transport or server error): the exception leaves the
\* function; the server may or may not have applied the points of the call.
UpsertRaises ==
    /\ embPc = "sparse"
    /\ embJ >= Len(CurrentBatch)
    /\ ~BuildRaises(embImpl, CurrentBatch, denseOut, sparseOut)
    /\ LET points == BuildPoints(embImpl, CurrentBatch, denseOut, sparseOut,
                                 embRun, embI)
       IN  /\ \E applied \in BOOLEAN :
                 coll' = IF applied
                         THEN [coll EXCEPT !.points = Upsert(coll.points, points)]
                         ELSE coll
           /\ calls' = Append(calls, Call("upsert", Len(points)))
    /\ embLog' = Append(embLog, LogEntry(CurrentBatch, TRUE, <<>>))
    /\ embPc' = "aborted"
    /\ UNCHANGED <<embImpl, embCfg, store, embI, embJ, denseOut, sparseOut,
                   embRun, afterRun1, segVars, factVars>>

\* The operator runs the pipeline again after an aborted run: the function
\* starts from its first line, nothing of the aborted run is kept but what
\* the collection holds.  (embLog keeps the entries of the aborted run.)
RetryAfterAbort ==
    /\ embPc = "aborted"
    /\ embRun = 1
    /\ afterRun1' = coll.points
    /\ embRun' = 2
    /\ \E r \in BOOLEAN : embCfg' = [embCfg EXCEPT !.recreate_collection = r]
    /\ calls' = <<>>
    /\ embPc' = "start"
    /\ embI' = 0 /\ embJ' = 0 /\ denseOut' = <<>> /\ sparseOut' = <<>>
    /\ UNCHANGED <<embImpl, store, coll, embLog, segVars, factVars>>

(***************************************************************************)
(* Fact extraction                                                         *)
(*   "backend" = src/backend/echo-chat/data_processing/fact_extraction.py  *)
(*               with core/database.py insert_facts                        *)
(*   "legacy"  = src/create_facts.py                                       *)
(* Tasks are asyncio coroutines on one event loop: a task runs from one    *)
(* await to the next without interruption, so each action below is the     *)
(* code between two awaits.  conversation_ids is <<1, ..., NumConvs>>.     *)
(***************************************************************************)
NumConvs == 3
MaxConcurrent == 2
MaxBatchConvs == 3
MaxFacts == 2

FactImpls == {"backend", "legacy"}
Convs == 1..NumConvs

\* A slice that takes in the last conversation of the batch before.
BatchIds_inclusive(i, batch_size) == {c \in Convs : i <= c /\ c <= i + batch_size}

\* conversation_ids[i : i + batch_size]
BatchIds(i, batch_size) == {c \in Convs : i < c /\ c <= i + batch_size}

\* batch_num = (i // batch_size) + 1
BatchNum(i, batch_size) == (i \div batch_size) + 1
\* total_batches = -(-len(conversation_ids) // batch_size)
TotalBatches(n, batch_size) == (n + batch_size - 1) \div batch_size

NoOutput == [kind |-> "none", n |-> 0, executed |-> 0]

\* An insert loop that walks the agent's list backwards.
FactRows_reversed(conversation_id, n) ==
    [j \in 1..n |-> [conversation_id |-> conversation_id, fact |-> n + 1 - j]]

\* The rows insert_facts / save_extracted_facts executes for n facts.
FactRows(conversation_id, n) ==
    [j \in 1..n |-> [conversation_id |-> conversation_id, fact |-> j]]

\* A gate that wakes its waiters in no particular order.
NextInLine_any(pcs, c) == TRUE

\* gather starts the tasks in list order and asyncio.Semaphore keeps its
\* waiters in a FIFO queue: a task gets a slot only when no task started
\* before it is still waiting for one.
NextInLine(pcs, c) == \A d \in Convs : d < c => pcs[d] # "waiting"

\* A gate that admits every task.
CanAcquire_always(value) == TRUE

\* asyncio.Semaphore.acquire does not block while the value is positive.
CanAcquire(value) == value > 0

\* A task that returns on "no messages" without giving its slot back.
SemAfterNoop_leak(value) == value - 1

\* "async with semaphore:" around "if not messages: return": the slot taken
\* on entry is released on the way out, within the same step of the task.
SemAfterNoop(value) == value

\* An insert that skips facts the table already holds.
InsertCommitted_dedupe(impl, table, pending, rows) ==
    IF SeqRange(rows) \subseteq SeqRange(table)
    THEN [facts |-> table \o pending, pending |-> <<>>]
    ELSE [facts |-> table \o pending \o rows, pending |-> <<>>]

\* The insert loop ran to the end and conn.commit() was called.
\*   backend: the commit is on the batch's shared connection and writes
\*            whatever that connection holds uncommitted;
\*   legacy:  save_extracted_facts has a connection of its own.
InsertCommitted(impl, table, pending, rows) ==
    IF impl = "backend"
    THEN [facts |-> table \o pending \o rows, pending |-> <<>>]
    ELSE [facts |-> table \o rows, pending |-> pending]

\* cursor.execute raised sqlite3.Error after k of the rows were executed.
\*   backend: the exception leaves insert_facts; the k rows stay uncommitted
\*            on the shared connection;
\*   legacy:  the exception is caught and the connection closed, which drops
\*            the uncommitted rows.
InsertFailed(impl, table, pending, rows, k) ==
    IF impl = "backend"
    THEN [facts |-> table, pending |-> pending \o SubSeq(rows, 1, k)]
    ELSE [facts |-> table, pending |-> pending]

\* The exception a task carries after the agent call raised.
\*   backend: only ValidationError is caught;  legacy: "except Exception".
ExcAfterAgentError(impl) == IF impl = "backend" THEN "agent_error" ELSE "none"
\*   backend: sqlite3.Error leaves insert_facts uncaught;
\*   legacy:  save_extracted_facts catches sqlite3.Error.
ExcAfterStoreError(impl) == IF impl = "backend" THEN "store_error" ELSE "none"

\* A task that deletes its session only after saving facts (no finally).
SessionsAfterDelete_onsuccess(existing, c, exc, out) ==
    IF out.kind = "valid" THEN existing \ {c} ELSE existing

\* finally: await session_service.delete_session(...)
SessionsAfterDelete(existing, c, exc, out) == existing \ {c}

\* A wait that returns when the first task of the batch is done.
GatherDone_first(pcs, excs, batch) ==
    /\ \E c \in batch : pcs[c] = "done"
    /\ \A c \in batch : excs[c] = "none" \/ pcs[c] # "done"

\* A wait that gives up on tasks whose agent call does not answer.
GatherDone_responsive(pcs, excs, batch) ==
    \A c \in batch : pcs[c] \in {"done", "stalled"} /\ excs[c] = "none"

\* A wait that returns once every task of the batch has taken its slot.
GatherDone_launched(pcs, excs, batch) ==
    \A c \in batch : pcs[c] # "waiting" /\ excs[c] = "none"

\* await asyncio.gather(*tasks) returns: every task of the batch is done and
\* none ended with an exception.
GatherDone(pcs, excs, batch) ==
    \A c \in batch : pcs[c] = "done" /\ excs[c] = "none"

\* await asyncio.gather(*tasks) raises: a task of the batch ended with an
\* exception (return_exceptions is not set).
GatherRaised(pcs, excs, batch) ==
    \E c \in batch : pcs[c] = "done" /\ excs[c] # "none"

\* backend: "if batch_num < total_batches: await asyncio.sleep(...)";
\* legacy:  "await asyncio.sleep(5)" after every batch.
SleepsAfterBatch(impl, i, batch_size) ==
    IF impl = "backend"
    THEN BatchNum(i, batch_size) < TotalBatches(NumConvs, batch_size)
    ELSE TRUE

IdleFacts ==
    /\ factImpl = "none"
    /\ factCfg = [max_concurrent |-> 1, batch_size |-> 1]
    /\ hasMessages = [c \in Convs |-> TRUE]
    /\ orchPc = "idle" /\ batchStart = 0
    /\ taskPc = [c \in Convs |-> "unborn"]
    /\ semValue = 0 /\ sessions = {}
    /\ agentOut = [c \in Convs |-> NoOutput]
    /\ taskExc = [c \in Convs |-> "none"]
    /\ facts = <<>> /\ factsAtStart = <<>> /\ connPending = <<>> /\ sleeps = 0

InitFactVars ==
    /\ factImpl \in FactImpls
    /\ factCfg \in [max_concurrent : 1..MaxConcurrent, batch_size : 1..MaxBatchConvs]
    /\ hasMessages \in [Convs -> BOOLEAN]
    /\ orchPc = "launch" /\ batchStart = 0
    /\ taskPc = [c \in Convs |-> "unborn"]
    /\ semValue = factCfg.max_concurrent
    /\ sessions = {}
    /\ agentOut = [c \in Convs |-> NoOutput]
    /\ taskExc = [c \in Convs |-> "none"]
    /\ facts = <<>> /\ factsAtStart = <<>> /\ connPending = <<>> /\ sleeps = 0

\* The orders in which an earlier run can have stored the conversations.
ConvOrders == {p \in [1..NumConvs -> Convs] : \A i, j \in 1..NumConvs : p[i] = p[j] => i = j}

RECURSIVE EarlierRunRows(_, _, _)
\* The table after a completed run in which the agent returned n[c] facts
\* for conversation c and the inserts happened in the order p.
EarlierRunRows(p, n, i) ==
    IF i > NumConvs THEN <<>>
    ELSE FactRows(p[i], n[p[i]]) \o EarlierRunRows(p, n, i + 1)

\* A run on a table that holds the facts of a completed earlier run.
InitFactVarsRepeat ==
    /\ factImpl \in FactImpls
    /\ factCfg \in [max_concurrent : 1..MaxConcurrent, batch_size : 1..MaxBatchConvs]
    /\ hasMessages = [c \in Convs |-> TRUE]
    /\ orchPc = "launch" /\ batchStart = 0
    /\ taskPc = [c \in Convs |-> "unborn"]
    /\ semValue = factCfg.max_concurrent
    /\ sessions = {}
    /\ agentOut = [c \in Convs |-> NoOutput]
    /\ taskExc = [c \in Convs |-> "none"]
    /\ \E p \in ConvOrders, n \in [Convs -> {0, MaxFacts}] :
          facts = EarlierRunRows(p, n, 1)
    /\ factsAtStart = facts
    /\ connPending = <<>> /\ sleeps = 0

CurrentBatchIds == BatchIds(batchStart, factCfg.batch_size)

\* The coroutines of the batch are created in list order and handed to gather.
LaunchBatch ==
    /\ orchPc = "launch"
    /\ taskPc' = [c \in Convs |-> IF c \in CurrentBatchIds THEN "waiting" ELSE taskPc[c]]
    /\ connPending' = <<>>
    /\ orchPc' = "gather"
    /\ UNCHANGED <<factImpl, factCfg, hasMessages, factsAtStart, batchStart, semValue, sessions,
                   agentOut, taskExc, facts, sleeps, segVars, embVars>>

\* "async with semaphore:" is entered, the messages are fetched, and either
\* the task returns (no messages: the slot goes back at once) or it starts
\* "await session_service.create_session(...)".  Slots are granted in the
\* order the tasks were started (asyncio runs and wakes them first-in
\* first-out).
Admit(c) ==
    /\ taskPc[c] = "waiting"
    /\ CanAcquire(semValue)
    /\ NextInLine(taskPc, c)
    /\ IF hasMessages[c]
       THEN /\ semValue' = semValue - 1
            /\ taskPc' = [taskPc EXCEPT ![c] = "creating"]
            /\ UNCHANGED agentOut
       ELSE /\ semValue' = SemAfterNoop(semValue)
            /\ taskPc' = [taskPc EXCEPT ![c] = "done"]
            /\ agentOut' = [agentOut EXCEPT ![c] = [kind |-> "noop", n |-> 0, executed |-> 0]]
    /\ UNCHANGED <<factImpl, factCfg, hasMessages, factsAtStart, orchPc, batchStart, sessions,
                   taskExc, facts, connPending, sleeps, segVars, embVars>>

\* A task of the batch has ended with an exception and gather's wake-up of
\* the orchestrator is queued on the event loop.
RaisePending ==
    orchPc = "gather" /\ GatherRaised(taskPc, taskExc, CurrentBatchIds)

\* create_session returned; runner.run_async is called and the task awaits
\* the first event: the agent invocation is in flight.  The event loop runs
\* the callbacks already queued before it polls for new input, so a queued
\* wake-up of the orchestrator runs before any invocation issued after it
\* was queued can be answered; responses to invocations already in flight
\* may be queued ahead of it.
SessionCreated(c) ==
    /\ taskPc[c] = "creating"
    /\ ~RaisePending
    /\ sessions' = sessions \cup {c}
    /\ taskPc' = [taskPc EXCEPT ![c] = "running"]
    /\ UNCHANGED <<factImpl, factCfg, hasMessages, factsAtStart, orchPc, batchStart, semValue,
                   agentOut, taskExc, facts, connPending, sleeps, segVars, embVars>>

\* The first event carries n facts that pass the schema: they are inserted
\* and committed, and the task goes on to delete its session.
AgentReturns(c, n) ==
    /\ taskPc[c] = "running"
    /\ LET r == InsertCommitted(factImpl, facts, connPending, FactRows(c, n))
       IN  /\ facts' = r.facts
           /\ connPending' = r.pending
           /\ agentOut' = [agentOut EXCEPT ![c] =
                               [kind |-> "valid", n |-> n, executed |-> n]]
    /\ taskPc' = [taskPc EXCEPT ![c] = "deleting"]
    /\ UNCHANGED <<factImpl, factCfg, hasMessages, factsAtStart, orchPc, batchStart, semValue,
                   sessions, taskExc, sleeps, segVars, embVars>>

\* The agent returns an empty list or MaxFacts facts.
AgentReturnsFacts(c) == \E n \in {0, MaxFacts} : AgentReturns(c, n)

\* The number of rows of conversation c in a table.
RowsOf(table, c) == Cardinality({i \in 1..Len(table) : table[i].conversation_id = c})

\* The agent returns for conversation c what it returned in the earlier run,
\* whose facts the table held when this run started.
AgentReturnsSame(c) == AgentReturns(c, RowsOf(factsAtStart, c))

\* The first event's text fails ExtractedFacts.model_validate_json: the
\* ValidationError is caught and logged, nothing is inserted.
AgentReturnsInvalid(c) ==
    /\ taskPc[c] = "running"
    /\ agentOut' = [agentOut EXCEPT ![c] = [kind |-> "invalid", n |-> 0, executed |-> 0]]
    /\ taskPc' = [taskPc EXCEPT ![c] = "deleting"]
    /\ UNCHANGED <<factImpl, factCfg, hasMessages, factsAtStart, orchPc, batchStart, semValue,
                   sessions, taskExc, facts, connPending, sleeps, segVars, embVars>>

\* A task that reads parts[-1] of the event without looking whether there
\* is any, and fails on an event without content.
ExcAfterNoContent_raises(impl, exc) == "agent_error"

\* The exception a task carries after an event without content: the check
\* "event and event.content and event.content.parts" fails and the task
\* returns (backend: "return"; legacy: "return None"), raising nothing.
ExcAfterNoContent(impl, exc) == exc

\* The first event has no content: the task returns.
AgentReturnsNoContent(c) ==
    /\ taskPc[c] = "running"
    /\ agentOut' = [agentOut EXCEPT ![c] = [kind |-> "nocontent", n |-> 0, executed |-> 0]]
    /\ taskExc' = [taskExc EXCEPT ![c] = ExcAfterNoContent(factImpl, taskExc[c])]
    /\ taskPc' = [taskPc EXCEPT ![c] = "deleting"]
    /\ UNCHANGED <<factImpl, factCfg, hasMessages, factsAtStart, orchPc, batchStart, semValue,
                   sessions, facts, connPending, sleeps, segVars, embVars>>

\* The agent invocation raises (transport error, API error, ...).
AgentRaises(c) ==
    /\ taskPc[c] = "running"
    /\ agentOut' = [agentOut EXCEPT ![c] = [kind |-> "error", n |-> 0, executed |-> 0]]
    /\ taskExc' = [taskExc EXCEPT ![c] = ExcAfterAgentError(factImpl)]
    /\ taskPc' = [taskPc EXCEPT ![c] = "deleting"]
    /\ UNCHANGED <<factImpl, factCfg, hasMessages, factsAtStart, orchPc, batchStart, semValue,
                   sessions, facts, connPending, sleeps, segVars, embVars>>

\* The agent returns n = MaxFacts valid facts and the insert of fact k+1
\* raises sqlite3.Error.
InsertFails(c) ==
    /\ taskPc[c] = "running"
    /\ \E n \in {MaxFacts} : \E k \in 0..(n - 1) :
          LET r == InsertFailed(factImpl, facts, connPending, FactRows(c, n), k)
          IN  /\ facts' = r.facts
              /\ connPending' = r.pending
              /\ agentOut' = [agentOut EXCEPT ![c] =
                                  [kind |-> "valid", n |-> n, executed |-> k]]
    /\ taskExc' = [taskExc EXCEPT ![c] = ExcAfterStoreError(factImpl)]
    /\ taskPc' = [taskPc EXCEPT ![c] = "deleting"]
    /\ UNCHANGED <<factImpl, factCfg, hasMessages, factsAtStart, orchPc, batchStart, semValue,
                   sessions, sleeps, segVars, embVars>>

\* The agent invocation never answers: "await anext(events)" has no timeout,
\* so the task stays suspended there, inside "async with semaphore" and
\* before "finally".
AgentStalls(c) ==
    /\ taskPc[c] = "running"
    /\ taskPc' = [taskPc EXCEPT ![c] = "stalled"]
    /\ UNCHANGED <<factImpl, factCfg, hasMessages, factsAtStart, orchPc, batchStart,
                   semValue, sessions, agentOut, taskExc, facts, connPending, sleeps,
                   segVars, embVars>>

\* delete_session returned; the "async with" block is left, which releases
\* the slot, and the task ends (with the exception it carries, if any).
SessionDeleted(c) ==
    /\ taskPc[c] = "deleting"
    /\ sessions' = SessionsAfterDelete(sessions, c, taskExc[c], agentOut[c])
    /\ semValue' = semValue + 1
    /\ taskPc' = [taskPc EXCEPT ![c] = "done"]
    /\ UNCHANGED <<factImpl, factCfg, hasMessages, factsAtStart, orchPc, batchStart, agentOut,
                   taskExc, facts, connPending, sleeps, segVars, embVars>>

\* gather returned.  backend: the "with sqlite3.connect(...)" block is left
\* without exception, which commits the connection.
BatchSettled ==
    /\ orchPc = "gather"
    /\ GatherDone(taskPc, taskExc, CurrentBatchIds)
    /\ facts' = facts \o connPending
    /\ connPending' = <<>>
    /\ IF SleepsAfterBatch(factImpl, batchStart, factCfg.batch_size)
       THEN orchPc' = "sleep" /\ UNCHANGED batchStart
       ELSE /\ batchStart' = batchStart + factCfg.batch_size
            /\ orchPc' = IF batchStart' < NumConvs THEN "launch" ELSE "finished"
    /\ UNCHANGED <<factImpl, factCfg, hasMessages, factsAtStart, taskPc, semValue, sessions,
                   agentOut, taskExc, sleeps, segVars, embVars>>

\* gather raised the exception of a task: it leaves the "with" block, which
\* rolls the connection back, and run_fact_extraction_pipeline itself.  The
\* other tasks are not cancelled by gather and keep running.
GatherRaises ==
    /\ orchPc = "gather"
    /\ GatherRaised(taskPc, taskExc, CurrentBatchIds)
    /\ connPending' = <<>>
    /\ orchPc' = "raised"
    /\ UNCHANGED <<factImpl, factCfg, hasMessages, factsAtStart, batchStart, taskPc, semValue,
                   sessions, agentOut, taskExc, facts, sleeps, segVars, embVars>>

\* await asyncio.sleep(delay) returned; the loop goes to the next batch.
SleepDone ==
    /\ orchPc = "sleep"
    /\ sleeps' = sleeps + 1
    /\ batchStart' = batchStart + factCfg.batch_size
    /\ orchPc' = IF batchStart' < NumConvs THEN "launch" ELSE "finished"
    /\ UNCHANGED <<factImpl, factCfg, hasMessages, factsAtStart, taskPc, semValue, sessions,
                   agentOut, taskExc, facts, connPending, segVars, embVars>>

(***************************************************************************)
(* Import into the message store                                           *)
(*   "importer" = sms_importer.import_sms_to_knowledge_base                *)
(*   "legacy"   = sms_to_knowledge_base.sms_db_to_knowledge_base           *)
(* The call is synchronous code on files of its own, so one call is one    *)
(* step.  segMessages is what the query on sms.db returns for the target   *)
(* number (ORDER BY message.date ASC), segG is conversation_gap_minutes.   *)
(* The message store is the file (kbExists) and the rows of its messages   *)
(* table (store).                                                          *)
(***************************************************************************)
ImportImpls == {"importer", "legacy"}

\* "if recreate_db and kb_path.exists(): Path.unlink(kb_path)" (os.remove in
\* the legacy script): the first statement of the call.
KbAfterRecreate(recreate, exists, rows) ==
    IF recreate /\ exists
    THEN [exists |-> FALSE, rows |-> <<>>]
    ELSE [exists |-> exists, rows |-> rows]

\* sqlite3.connect(kb_path) and CREATE TABLE IF NOT EXISTS messages: the file
\* is there afterwards, with the rows it had.
KbAfterConnect(kb) == [exists |-> TRUE, rows |-> kb.rows]

\* batch_insert_data: one row per processed message, each with a new uuid4.
ImportedRows(processed) ==
    [k \in 1..Len(processed) |->
        [id |-> Uuid4(0, k), text |-> "a",
         conversation_id |-> processed[k].conversation_id,
         is_from_me |-> k % 2,
         timestamp_seconds |-> processed[k].timestamp_seconds]]

\* What one call does, in the order of its statements.
\*   importer: unlink, then the check of the source (FileNotFoundError),
\*             then connect and create table, then the query (ValueError on
\*             no row), then segment, insert and commit;
\*   legacy:   remove, connect, create table and commit, then connect to the
\*             source without a check (on a missing file the query raises
\*             sqlite3.OperationalError), ValueError on no row, then
\*             segment, insert and commit.
ImportOutcome(impl, recreate, sms_exists, raw_messages, gap, exists, rows) ==
    LET removed   == KbAfterRecreate(recreate, exists, rows)
        connected == KbAfterConnect(removed)
        processed == Segmenter(impl, raw_messages, gap)
    IN  IF ~sms_exists
        THEN IF impl = "importer"
             THEN [pc |-> "FileNotFoundError", kb |-> removed, processed |-> <<>>]
             ELSE [pc |-> "OperationalError", kb |-> connected, processed |-> <<>>]
        ELSE IF raw_messages = <<>>
        THEN [pc |-> "ValueError", kb |-> connected, processed |-> <<>>]
        ELSE [pc |-> "returned",
              kb |-> [exists |-> TRUE,
                      rows |-> connected.rows \o ImportedRows(processed)],
              processed |-> processed]

\* The exceptions a call can end with.
ImportErrors == {"FileNotFoundError", "OperationalError", "ValueError"}

InitImpVars ==
    /\ segImpl \in ImportImpls
    /\ segG \in {1, DefaultGapMinutes}
    /\ smsExists \in BOOLEAN
    /\ segMessages \in (IF smsExists
                        THEN {RawMessages(ts) : ts \in SortedTimestampSeqs}
                        ELSE {<<>>})
    /\ segResult = <<>> /\ segPc = "idle"
    /\ recreate_db \in BOOLEAN
    /\ kbExists \in BOOLEAN
    /\ store \in (IF kbExists THEN Stores ELSE {<<>>})
    /\ impPc = "start"
    /\ kbAtCall = [exists |-> kbExists, rows |-> store]

\* One call of the import function.
Import ==
    /\ impPc = "start"
    /\ LET r == ImportOutcome(segImpl, recreate_db, smsExists, segMessages, segG,
                              kbExists, store)
       IN  /\ impPc' = r.pc
           /\ kbExists' = r.kb.exists
           /\ store' = r.kb.rows
           /\ segResult' = r.processed
           /\ segMessages' = IF r.pc = "returned" THEN r.processed ELSE segMessages
    /\ UNCHANGED <<segImpl, segG, segPc, recreate_db, smsExists, kbAtCall,
                   embImpl, embCfg, coll, calls, embPc, embI, embJ, denseOut,
                   sparseOut, embRun, afterRun1, embLog, factVars>>

(***************************************************************************)
(* Specifications                                                          *)
(***************************************************************************)
InitSeg == InitSegVars /\ IdleEmb /\ IdleFacts
NextSeg == Segment
SpecSeg == InitSeg /\ [][NextSeg]_vars

\* One import call on a message store that may or may not be there.
InitImport ==
    /\ InitImpVars
    /\ embImpl = "none"
    /\ embCfg = [batch_size |-> 1, sparse_batch_size |-> 1, recreate_collection |-> FALSE]
    /\ coll = [exists |-> FALSE, hnsw |-> "none", points |-> {}]
    /\ calls = <<>> /\ embPc = "idle" /\ embI = 0 /\ embJ = 0
    /\ denseOut = <<>> /\ sparseOut = <<>> /\ embRun = 0 /\ afterRun1 = {}
    /\ embLog = <<>>
    /\ IdleFacts
NextImport == Import
SpecImport == InitImport /\ [][NextImport]_vars

\* The segmenter on inputs that need not be sorted.
InitSegAnyOrder == InitSegVarsAnyOrder /\ IdleEmb /\ IdleFacts
SpecSegAnyOrder == InitSegAnyOrder /\ [][NextSeg]_vars

InitEmbed == IdleSeg /\ InitEmbVars /\ IdleFacts
NextEmbed ==
    \/ EmbFetch
    \/ ManageCollection
    \/ EncodeDense
    \/ EncodeSparse
    \/ BuildAndUpsert
    \/ Reconfigure
    \/ SecondRun
SpecEmbed == InitEmbed /\ [][NextEmbed]_vars

\* The same pipeline with models that may return the wrong number of vectors.
NextEmbedFault ==
    \/ NextEmbed
    \/ EncodeDenseWrong
    \/ EncodeSparseWrong
SpecEmbedFault == InitEmbed /\ [][NextEmbedFault]_vars

\* The same pipeline with models and a vector store that may raise, and a
\* retry after an aborted run.
NextEmbedErr ==
    \/ NextEmbed
    \/ EncodeRaises
    \/ UpsertRaises
    \/ RetryAfterAbort
SpecEmbedErr == InitEmbed /\ [][NextEmbedErr]_vars

\* The pipeline on stores that also hold rows written by insert_message.
InitEmbedInserted == IdleSeg /\ InitEmbVarsInserted /\ IdleFacts
SpecEmbedInserted == InitEmbedInserted /\ [][NextEmbed]_vars

InitFacts == IdleSeg /\ IdleEmb /\ InitFactVars
NextFacts ==
    \/ LaunchBatch
    \/ BatchSettled
    \/ SleepDone
    \/ \E c \in Convs :
          \/ Admit(c)
          \/ SessionCreated(c)
          \/ AgentReturnsFacts(c)
          \/ AgentReturnsInvalid(c)
          \/ AgentReturnsNoContent(c)
          \/ SessionDeleted(c)
SpecFacts == InitFacts /\ [][NextFacts]_vars

\* A repeated run: the table holds the facts of an earlier run and the agent
\* returns the same facts again.
InitFactsRepeat == IdleSeg /\ IdleEmb /\ InitFactVarsRepeat
NextFactsRepeat ==
    \/ LaunchBatch
    \/ BatchSettled
    \/ SleepDone
    \/ \E c \in Convs :
          \/ Admit(c)
          \/ SessionCreated(c)
          \/ AgentReturnsSame(c)
          \/ SessionDeleted(c)
SpecFactsRepeat == InitFactsRepeat /\ [][NextFactsRepeat]_vars

\* Runs of both pipelines, one after another in any order, on one message
\* store; conversation c of the fact extraction is the rows labelled conv_c.
SegmentedStores ==
    UNION {{[k \in 1..n |-> [StoreRow(k, "a") EXCEPT !.conversation_id = ConvLabel(cv[k])]] :
              cv \in {f \in [1..n -> Convs] : \A k \in 1..(n - 1) : f[k] <= f[k + 1]}} :
           n \in 1..MaxStoreMsgs}

InitPipelines ==
    /\ IdleSeg
    /\ embImpl \in EmbImpls
    /\ embCfg = [batch_size |-> MaxBatchSize, sparse_batch_size |-> 1,
                 recreate_collection |-> TRUE]
    /\ store \in SegmentedStores
    /\ coll \in InitialCollections
    /\ calls = <<>> /\ embPc = "start" /\ embI = 0 /\ embJ = 0
    /\ denseOut = <<>> /\ sparseOut = <<>> /\ embRun = 1 /\ afterRun1 = {}
    /\ embLog = <<>>
    /\ factImpl \in FactImpls
    /\ factCfg = [max_concurrent |-> MaxConcurrent, batch_size |-> MaxConcurrent]
    /\ hasMessages = [c \in Convs |->
                         \E k \in 1..Len(store) : store[k].conversation_id = ConvLabel(c)]
    /\ orchPc = "launch" /\ batchStart = 0
    /\ taskPc = [c \in Convs |-> "unborn"]
    /\ semValue = factCfg.max_concurrent
    /\ sessions = {}
    /\ agentOut = [c \in Convs |-> NoOutput]
    /\ taskExc = [c \in Convs |-> "none"]
    /\ facts = <<>> /\ factsAtStart = <<>> /\ connPending = <<>> /\ sleeps = 0

\* No run of the embedding pipeline is under way.
EmbedAtRest == embPc \in {"start", "done"}
\* No run of the fact extraction is under way.
FactsAtRest ==
    \/ orchPc = "launch" /\ batchStart = 0
    \/ orchPc = "finished" /\ \A c \in Convs : taskPc[c] = "done"

NextPipelines ==
    \/ EmbedAtRest /\ NextFacts
    \/ FactsAtRest /\ NextEmbed
SpecPipelines == InitPipelines /\ [][NextPipelines]_vars

\* The same run with agent invocations and inserts that may raise.
NextFactsErr ==
    \/ NextFacts
    \/ GatherRaises
    \/ \E c \in Convs :
          \/ AgentRaises(c)
          \/ InsertFails(c)
SpecFactsErr == InitFacts /\ [][NextFactsErr]_vars

\* The run under a fair scheduler: the event loop keeps running whatever is
\* ready, and every agent invocation, session call and sleep comes back.
FairFactsErr == SpecFactsErr /\ WF_vars(NextFactsErr)

\* The same run with agent invocations that may also never answer.
NextFactsStall ==
    \/ NextFactsErr
    \/ \E c \in Convs : AgentStalls(c)
SpecFactsStall == InitFacts /\ [][NextFactsStall]_vars

(***************************************************************************)
(* Properties                                                              *)
(***************************************************************************)
ConvIndex(msg) == msg.conversation_id[2]
Gap(messages, i) == messages[i].timestamp_seconds - messages[i - 1].timestamp_seconds

\* C1: for a timestamp-sorted input and threshold G, the conversation index
\* of the returned sequence never decreases and, from message i-1 to message
\* i, goes up by exactly 1 when the gap is strictly greater than G and by 0
\* otherwise (a gap equal to G stays in the conversation).
C1_GapRule ==
    segPc = "returned" =>
        /\ \A i \in 1..Len(segResult) :
              segResult[i].conversation_id = ConvLabel(ConvIndex(segResult[i]))
        /\ \A i \in 2..Len(segResult) :
              /\ ConvIndex(segResult[i]) >= ConvIndex(segResult[i - 1])
              /\ ConvIndex(segResult[i]) - ConvIndex(segResult[i - 1]) =
                    (IF Gap(segResult, i) > segG * SecondsPerMinute THEN 1 ELSE 0)

\* A returned sequence with a gap equal to G (same conversation) and a gap
\* above G (next conversation).
C1_Witness ==
    /\ segPc = "returned"
    /\ segG > 0
    /\ \E i \in 2..Len(segResult) :
          /\ Gap(segResult, i) = segG * SecondsPerMinute
          /\ ConvIndex(segResult[i]) = ConvIndex(segResult[i - 1])
    /\ \E i \in 2..Len(segResult) :
          /\ Gap(segResult, i) > segG * SecondsPerMinute
          /\ ConvIndex(segResult[i]) = ConvIndex(segResult[i - 1]) + 1

InFlight == {c \in Convs : taskPc[c] = "running"}

\* C2: at most max_concurrent (K) tasks have issued their agent invocation
\* and not finished it, for every batch size and interleaving.
C2_AtMostKInFlight == Cardinality(InFlight) <= factCfg.max_concurrent

\* K invocations in flight while another task of a batch larger than K waits.
C2_Witness ==
    /\ Cardinality(InFlight) = factCfg.max_concurrent
    /\ factCfg.batch_size > factCfg.max_concurrent
    /\ \E c \in Convs : taskPc[c] = "waiting" /\ hasMessages[c]

FactsQuiescent ==
    /\ orchPc \in {"finished", "raised"}
    /\ \A c \in Convs : taskPc[c] \in {"unborn", "done"}

\* C3 (as claimed): the failure of one conversation never leaves the
\* orchestrator run, and when the run has come to rest every conversation
\* has been processed.
C3_Orig ==
    /\ orchPc # "raised"
    /\ FactsQuiescent => \A c \in Convs : taskPc[c] = "done"

RowCount(c) == Cardinality({i \in 1..Len(facts) : facts[i].conversation_id = c})

\* The batch of conversation c has settled: gather returned for it.
SettledFor(c) ==
    \/ c <= batchStart
    \/ orchPc = "sleep" /\ c \in CurrentBatchIds

\* C4: when a batch has settled, every conversation of it was processed and
\* each one whose agent output passed validation has all its facts in the
\* table, whatever validation failures the batch had.
C4_ValidationIsolated ==
    \A c \in Convs :
        SettledFor(c) =>
            /\ agentOut[c].kind # "none"
            /\ agentOut[c].kind = "valid" => RowCount(c) = agentOut[c].n

\* A settled batch with a validation failure and another conversation whose
\* facts are all stored.
C4_Witness ==
    \E c, d \in Convs :
        /\ c # d
        /\ BatchNum(c - 1, factCfg.batch_size) = BatchNum(d - 1, factCfg.batch_size)
        /\ SettledFor(c) /\ SettledFor(d)
        /\ agentOut[c].kind = "invalid"
        /\ agentOut[d].kind = "valid" /\ agentOut[d].n = MaxFacts
        /\ RowCount(d) = MaxFacts

CallsAt(op) == {k \in 1..Len(calls) : calls[k].op = op}

\* C5 (as claimed): a complete run that found the collection absent issued
\* exactly one create call, with index construction deferred, before every
\* upsert, and exactly one reconfigure call, after every upsert.
C5_Orig ==
    (/\ embPc = "done"
     /\ store # <<>>
     /\ calls # <<>>
     /\ calls[1] = Call("collection_exists", FALSE)) =>
        /\ Cardinality(CallsAt("create_collection")) = 1
        /\ \A k \in CallsAt("create_collection") :
              /\ calls[k].arg = "deferred"
              /\ \A u \in CallsAt("upsert") : k < u
        /\ Cardinality(CallsAt("update_collection")) = 1
        /\ \A k \in CallsAt("update_collection") :
              \A u \in CallsAt("upsert") : u < k

C7_Aligned ==
    \A e \in 1..Len(embLog) :
        LET b == embLog[e] IN
        /\ b.batch = BatchMessages(store, b.offset, embCfg.batch_size)
        /\ Len(b.dense) = Len(b.batch)
        /\ Len(b.sparse) = Len(b.batch)
        /\ ~b.raised
        /\ Len(b.points) = Len(b.batch)
        /\ \A k \in 1..Len(b.batch) :
              /\ b.points[k].id = b.batch[k].id
              /\ b.points[k].payload = Payload(b.batch[k])
              /\ b.points[k].dense = Dense(b.batch[k].text)
              /\ b.points[k].sparse = Sparse(b.batch[k].text)

\* A batch of two different texts embedded in two sparse sub-batches.
C7_Witness ==
    \E e \in 1..Len(embLog) :
        /\ Len(embLog[e].batch) >= 2
        /\ embCfg.sparse_batch_size < Len(embLog[e].batch)
        /\ embLog[e].batch[1].text # embLog[e].batch[2].text
        /\ Len(embLog[e].points) = Len(embLog[e].batch)

\* C8 (as claimed): a batch whose dense or sparse list differs in length
\* from its texts aborts the run and none of its points is upserted.
C8_Orig ==
    \A e \in 1..Len(embLog) :
        LET b == embLog[e] IN
        (Len(b.dense) # Len(b.batch) \/ Len(b.sparse) # Len(b.batch)) =>
            b.raised /\ b.points = <<>>

\* C9: a task that has finished has no session left, whatever its outcome;
\* a session exists only while its task is running or deleting it.
C9_SessionReleased ==
    /\ \A c \in Convs : taskPc[c] = "done" => c \notin sessions
    /\ \A c \in sessions : taskPc[c] \in {"running", "deleting"}
    /\ (\A c \in Convs : taskPc[c] \in {"unborn", "done"}) => sessions = {}

\* Tasks finished after an agent error and after a validation failure, and
\* no session exists.
C9_Witness ==
    /\ \E c, d \in Convs :
          /\ taskPc[c] = "done" /\ agentOut[c].kind = "error"
          /\ taskPc[d] = "done" /\ agentOut[d].kind \in {"invalid", "nocontent"}
    /\ \E c \in Convs : taskPc[c] = "done" /\ agentOut[c].kind = "valid"
    /\ sessions = {}

\* C10 (as claimed): after a run the table holds, for every conversation,
\* all the facts the agent returned for it or none; none when the output
\* failed validation or the insert failed part-way.
C10_Orig ==
    FactsQuiescent =>
        \A c \in Convs :
            /\ RowCount(c) \in {0, agentOut[c].n}
            /\ agentOut[c].kind = "invalid" => RowCount(c) = 0
            /\ agentOut[c].executed < agentOut[c].n => RowCount(c) = 0

\* The 1-based number of the batch conversation c belongs to.
BatchOf(c) == BatchNum(c - 1, factCfg.batch_size)

\* C11: a task of a later batch exists (launched, waiting at the gate or
\* beyond) only when every task of every earlier batch has ended, whether it
\* stored facts, failed or did nothing; and batch b is launched only after
\* b - 1 inter-batch sleeps have completed.
C11_Barrier ==
    /\ \A c, d \in Convs :
          (BatchOf(c) < BatchOf(d) /\ taskPc[d] # "unborn") => taskPc[c] = "done"
    /\ orchPc \in {"launch", "gather"} =>
          sleeps = BatchNum(batchStart, factCfg.batch_size) - 1

\* A task of the second batch is in flight after a first batch of two tasks,
\* one of which failed, and one sleep.
C11_Witness ==
    \E c, d, e \in Convs :
        /\ c # d /\ BatchOf(c) = 1 /\ BatchOf(d) = 1 /\ BatchOf(e) = 2
        /\ agentOut[c].kind \in {"invalid", "error"}
        /\ agentOut[d].kind = "valid"
        /\ taskPc[e] = "running"
        /\ sleeps = 1

\* The log entries of the run in progress.
RunEntries == {e \in 1..Len(embLog) : embLog[e].run = embRun}

\* What holds of an aborted run whatever collection it started from: no
\* reconfigure call was issued, no batch after the failing one was embedded
\* or upserted, the points of the batches upserted before it are in the
\* collection, and every run (a retry too) starts at the first batch.
AbortedRunFrame ==
    /\ embPc = "aborted" =>
          /\ CallsAt("update_collection") = {}
          /\ coll.exists
          /\ \A e \in RunEntries :
                /\ embLog[e].offset <= embI
                /\ embLog[e].raised <=> embLog[e].offset = embI
                /\ ~embLog[e].raised => SeqRange(embLog[e].points) \subseteq coll.points
    /\ \A e \in 1..Len(embLog) :
          (e = 1 \/ embLog[e - 1].run # embLog[e].run) => embLog[e].offset = 0

\* C12 (as claimed): whenever a run of the uploader aborts, the collection is
\* in its deferred-build state (besides the frame above).
C12_Orig ==
    embImpl = "uploader" =>
        /\ AbortedRunFrame
        /\ embPc = "aborted" => coll.hnsw = "deferred"

\* C12 (amended): a run of the uploader that aborts at batch k issued no
\* reconfigure call, embedded and upserted no batch after k, left the points
\* of the batches before k in the collection, and a retry starts at the first
\* batch; the collection is in its deferred-build state when this run created
\* it (one it found and appended to keeps the configuration it had).
C12_AbortLeavesPartial ==
    embImpl = "uploader" =>
        /\ AbortedRunFrame
        /\ (embPc = "aborted" /\ CallsAt("create_collection") # {}) =>
              coll.hnsw = "deferred"

\* A retry that has upserted its first batch after the first run aborted at
\* its second batch, the collection created by the first run still deferred.
C12_Witness ==
    /\ embImpl = "uploader"
    /\ embRun = 2
    /\ coll.hnsw = "deferred"
    /\ \E e \in 1..Len(embLog) :
          embLog[e].run = 1 /\ embLog[e].raised /\ embLog[e].offset > 0
    /\ \E e \in RunEntries : ~embLog[e].raised /\ embLog[e].offset = 0

\* C13 (as claimed): in every segmentation path the first message of a
\* non-empty input is labelled conv_0, and timestamps 0, 60, 3000 s with a
\* threshold of 1800 s (30 minutes) are labelled conv_0, conv_0, conv_1.
C13_Orig ==
    (segPc = "returned" /\ segResult # <<>>) =>
        /\ segResult[1].conversation_id = ConvLabel(0)
        /\ (/\ segG = DefaultGapMinutes
            /\ [i \in 1..Len(segResult) |-> segResult[i].timestamp_seconds]
                   = <<0, 60, 3000>>) =>
               [i \in 1..Len(segResult) |-> segResult[i].conversation_id]
                   = <<ConvLabel(0), ConvLabel(0), ConvLabel(1)>>

\* C14 (as claimed): every upserted point has the id of the message it was
\* built from, rows written by insert_message included, and a complete run
\* into a collection it created leaves exactly one point per message id.
C14_Orig ==
    /\ \A e \in 1..Len(embLog) :
          \A k \in 1..Len(embLog[e].points) :
              embLog[e].points[k].id = embLog[e].batch[k].id
    /\ (embPc = "done" /\ CallsAt("create_collection") # {}) =>
          /\ {p.id : p \in coll.points} = {store[k].id : k \in 1..Len(store)}
          /\ Cardinality(coll.points) = Cardinality({p.id : p \in coll.points})

\* The connection the task of conversation c reads and writes through.
\*   backend: the one "with sqlite3.connect(DB_NAME) as conn" of its batch,
\*            handed to every _extract_and_save_facts of the batch;
\*   legacy:  save_extracted_facts (and the message fetch) connect on their own.
ConnOf(c) ==
    IF factImpl = "backend" THEN <<"batch_conn", BatchOf(c)>> ELSE <<"own_conn", c>>

\* Tasks that hold a gate slot: admitted and not yet ended.
Admitted == {c \in Convs : taskPc[c] \in {"creating", "running", "deleting"}}

\* Tasks that have yet to run a statement (the message fetch or the inserts).
YetToRunStatement == {c \in Convs : taskPc[c] \in {"waiting", "creating", "running"}}

\* C15 (as claimed): two tasks in flight at the same time never use the same
\* connection, and no connection holds inserted but uncommitted rows of one
\* task while another task is yet to run a statement on it.
C15_Orig ==
    /\ \A c, d \in Admitted : c # d => ConnOf(c) # ConnOf(d)
    /\ \A i \in 1..Len(connPending) :
          \A d \in YetToRunStatement :
              d # connPending[i].conversation_id =>
                  ConnOf(d) # ConnOf(connPending[i].conversation_id)

\* The rows in the order their INSERTs were executed: the committed rows and
\* the uncommitted rows of the batch connection.  The facts table assigns ids
\* with AUTOINCREMENT, so a row's id order is its position in this sequence.
InsertOrder == facts \o connPending

\* C16: of two rows of one conversation the one inserted first (so with the
\* smaller id) is the fact the agent returned earlier, and no row of another
\* conversation lies between them.
C16_AgentOrder ==
    \A i, j \in 1..Len(InsertOrder) :
        (i < j /\ InsertOrder[i].conversation_id = InsertOrder[j].conversation_id) =>
            /\ InsertOrder[i].fact < InsertOrder[j].fact
            /\ \A m \in i..j :
                  InsertOrder[m].conversation_id = InsertOrder[i].conversation_id

\* Two conversations with all their facts stored, the later conversation of
\* the list first: between conversations the order follows completion.
C16_Witness ==
    \E i, j \in 1..Len(facts) :
        /\ i < j
        /\ facts[i].conversation_id > facts[j].conversation_id
        /\ RowCount(facts[i].conversation_id) = MaxFacts
        /\ RowCount(facts[j].conversation_id) = MaxFacts

\* C17: a conversation without messages never has a session, an agent
\* invocation, a fact row or an exception; its task goes from the gate
\* straight to its end, and the free slots of the gate always equal K minus
\* the tasks holding one (the slot of a no-op task is back when it ends).
C17_NoMessagesNoop ==
    /\ \A c \in Convs :
          ~hasMessages[c] =>
              /\ c \notin sessions
              /\ taskPc[c] \in {"unborn", "waiting", "done"}
              /\ agentOut[c].kind \in {"none", "noop"}
              /\ taskPc[c] = "done" <=> agentOut[c].kind = "noop"
              /\ taskExc[c] = "none"
              /\ \A i \in 1..Len(InsertOrder) : InsertOrder[i].conversation_id # c
    /\ semValue = factCfg.max_concurrent - Cardinality(Admitted)

\* With one slot, a conversation without messages has ended as a no-op and a
\* later conversation of the same batch has been admitted.
C17_Witness ==
    \E c, d \in Convs :
        /\ factCfg.max_concurrent = 1
        /\ c < d /\ BatchOf(c) = BatchOf(d)
        /\ ~hasMessages[c] /\ taskPc[c] = "done" /\ agentOut[c].kind = "noop"
        /\ taskPc[d] = "running"

\* table is an initial segment of other.
IsPrefix(table, other) ==
    Len(table) <= Len(other) /\ SubSeq(other, 1, Len(table)) = table

\* The rows this run has added: those after the rows it found.
AddedRows == SubSeq(facts, Len(factsAtStart) + 1, Len(facts))

\* C18: the rows a run found stay where they are, unchanged (rows are only
\* appended, so new rows get new, larger ids); and when a run that repeats
\* the agent outputs of the earlier run has finished, every conversation has
\* its facts twice, the added rows being a copy of its earlier rows.
C18_AppendOnly ==
    /\ IsPrefix(factsAtStart, facts)
    /\ (orchPc = "finished" /\ \A c \in Convs : taskPc[c] = "done") =>
          \A c \in Convs :
              /\ RowsOf(facts, c) = 2 * RowsOf(factsAtStart, c)
              /\ RowsOf(AddedRows, c) = RowsOf(factsAtStart, c)
              /\ \A i \in 1..Len(AddedRows) :
                    AddedRows[i].conversation_id = c =>
                        AddedRows[i] \in SeqRange(factsAtStart)

\* A finished repeated run over a table that held facts of two conversations.
C18_Witness ==
    /\ orchPc = "finished" /\ \A c \in Convs : taskPc[c] = "done"
    /\ Len(factsAtStart) >= 2 * MaxFacts
    /\ Len(facts) = 2 * Len(factsAtStart)

\* C19: no step of the embedding pipeline or of the fact extraction changes
\* the messages table: every stored row keeps its conversation_id and every
\* other field through any sequence of runs.
C19_MessagesUnchanged == [][store' = store]_vars

\* Both pipelines have run to their end (the embedding pipeline twice) on a
\* store of several conversations, and facts and points were written.
C19_Witness ==
    /\ embPc = "done" /\ embRun = 2
    /\ orchPc = "finished" /\ \A c \in Convs : taskPc[c] = "done"
    /\ facts # <<>>
    /\ coll.points # {}
    /\ \E k \in 1..Len(store) : store[k].conversation_id # store[1].conversation_id

RECURSIVE Flatten(_)
\* The concatenation of a sequence of sequences.
Flatten(ss) == IF ss = <<>> THEN <<>> ELSE Head(ss) \o Flatten(Tail(ss))

\* The arguments of the calls at the positions lo..hi of calls.
ArgsAt(lo, hi) == [k \in 1..(hi - lo + 1) |-> calls[lo + k - 1].arg]

\* The position after the calls made for the batch whose encode call is at e:
\* the next encode call, the reconfigure call, or the end of calls.
BatchEnd(e) ==
    LET later == {k \in (e + 1)..Len(calls) : calls[k].op \in {"encode", "update_collection"}}
    IN  IF later = {} THEN Len(calls) + 1
        ELSE CHOOSE k \in later : \A m \in later : k <= m

\* C20: in a complete run the texts passed to the dense model, call after
\* call, are the stored messages in fetch (timestamp) order, each message
\* once, at most B per call; the calls made for a batch are one dense call,
\* then sparse calls of at most Bs texts whose arguments put together are the
\* batch's texts, then the upsert of the batch, before the next dense call.
C20_BatchOrder ==
    (embPc = "done" /\ store # <<>>) =>
        /\ IsSorted([k \in 1..Len(store) |-> store[k].timestamp_seconds])
        /\ Flatten([e \in 1..Len(embLog) |-> embLog[e].batch]) = store
        /\ Cardinality(CallsAt("encode")) = Len(embLog)
        /\ \A e \in CallsAt("encode") :
              LET last == BatchEnd(e) - 1 IN
              /\ Len(calls[e].arg) \in 1..embCfg.batch_size
              /\ last > e + 1
              /\ calls[last] = Call("upsert", Len(calls[e].arg))
              /\ \A k \in (e + 1)..(last - 1) :
                    /\ calls[k].op = "embed"
                    /\ Len(calls[k].arg) \in 1..embCfg.sparse_batch_size
              /\ Flatten(ArgsAt(e + 1, last - 1)) = calls[e].arg
        /\ Flatten([k \in 1..Cardinality(CallsAt("encode")) |->
                       calls[CHOOSE e \in CallsAt("encode") :
                                Cardinality({x \in CallsAt("encode") : x <= e}) = k].arg])
              = BatchTexts(store)

\* A complete run of two batches, the first embedded in two sparse calls.
C20_Witness ==
    /\ embPc = "done"
    /\ Len(embLog) = 2
    /\ Len(embLog[1].batch) = 2
    /\ embCfg.sparse_batch_size = 1
    /\ Cardinality(CallsAt("embed")) = 3
    /\ Cardinality(CallsAt("upsert")) = 2

\* Tasks that have been given a slot (or have come and gone through the gate).
PastGate == {c \in Convs : taskPc[c] \notin {"unborn", "waiting"}}

\* C21: of two tasks, the one earlier in the conversation list is admitted
\* to the gate no later than the other: whenever the later one is past the
\* gate, so is the earlier one.
C21_AdmitInOrder ==
    \A c, d \in Convs : (c < d /\ d \in PastGate) => c \in PastGate

\* Two tasks of one batch, the later one finished with its facts stored
\* while the earlier one still awaits its agent.
C21_Witness ==
    \E c, d \in Convs :
        /\ c < d /\ BatchOf(c) = BatchOf(d)
        /\ taskPc[c] = "running"
        /\ taskPc[d] = "done" /\ agentOut[d].kind = "valid"

Stalled == {c \in Convs : taskPc[c] = "stalled"}

\* What holds while the agent call of conversation c does not answer.
StalledHoldsSlot(c) ==
    /\ semValue = factCfg.max_concurrent - Cardinality(Admitted \cup Stalled)
    /\ semValue <= factCfg.max_concurrent - 1
    /\ Cardinality(InFlight \ {c}) <= factCfg.max_concurrent - 1
    /\ ~SettledFor(c)
    /\ orchPc \in {"gather", "raised"}
    /\ BatchNum(batchStart, factCfg.batch_size) = BatchOf(c)
    /\ \A d \in Convs : BatchOf(d) > BatchOf(c) => taskPc[d] = "unborn"

\* C22: a task whose agent call never answers stays where it is for ever,
\* and as long as it does its slot is not back at the gate, at most K - 1
\* other invocations are in flight, its batch has not settled and no task of
\* a later batch has been launched.
C22_StalledForever ==
    /\ [](\A c \in Stalled : StalledHoldsSlot(c))
    /\ [][\A c \in Stalled : taskPc'[c] = "stalled"]_vars

\* With two slots, one call of a first batch of three has stalled, a second
\* task has finished and the third has taken the free slot; a later batch
\* is still to come.
C22_Witness ==
    \E c, d, e \in Convs :
        /\ factCfg.max_concurrent = 2
        /\ BatchOf(c) = BatchOf(d) /\ BatchOf(d) = BatchOf(e)
        /\ taskPc[c] = "stalled"
        /\ taskPc[d] = "done" /\ agentOut[d].kind = "valid"
        /\ taskPc[e] = "running"

\* The timestamps of a message sequence.
Timestamps(messages) == [i \in 1..Len(messages) |-> messages[i].timestamp_seconds]

\* C23 (as claimed): after a call the sequence the caller passed is as it
\* was (no message of it carries a label), and the result is what a second
\* call on the same timestamps and threshold returns.
C23_Orig ==
    segPc = "returned" =>
        /\ segMessages = RawMessages(Timestamps(segMessages))
        /\ segResult = Segmenter(segImpl, RawMessages(Timestamps(segResult)), segG)

\* C24: on a non-empty input in any order the call returns (nothing is
\* raised) with every message labelled, the label index going up by one
\* exactly at a gap strictly greater than G; a negative gap never does.
C24_UnsortedAccepted ==
    (segPc # "input" /\ segMessages # <<>>) =>
        /\ segPc = "returned"
        /\ Timestamps(segResult) = Timestamps(segMessages)
        /\ \A i \in 1..Len(segResult) :
              segResult[i].conversation_id = ConvLabel(ConvIndex(segResult[i]))
        /\ \A i \in 2..Len(segResult) :
              /\ ConvIndex(segResult[i]) - ConvIndex(segResult[i - 1]) =
                    (IF Gap(segResult, i) > segG * SecondsPerMinute THEN 1 ELSE 0)
              /\ Gap(segResult, i) < 0 =>
                    ConvIndex(segResult[i]) = ConvIndex(segResult[i - 1])

\* A returned sequence that goes back in time by more than G without a new
\* conversation, and forward by more than G with one.
C24_Witness ==
    /\ segPc = "returned"
    /\ \E i \in 2..Len(segResult) :
          /\ -Gap(segResult, i) > segG * SecondsPerMinute
          /\ ConvIndex(segResult[i]) = ConvIndex(segResult[i - 1])
    /\ \E i \in 2..Len(segResult) :
          /\ Gap(segResult, i) > segG * SecondsPerMinute
          /\ ConvIndex(segResult[i]) = ConvIndex(segResult[i - 1]) + 1

\* The two segmenter functions (the third path is a loop inside a pipeline).
SegHelpers == {"importer", "legacy"}

\* C25: a call of a segmenter function on the empty sequence returns the
\* empty sequence, whatever the threshold, and raises nothing.
C25_EmptyInEmptyOut ==
    [][(segPc = "input" /\ segMessages = <<>> /\ segImpl \in SegHelpers) =>
          (segPc' = "returned" /\ segResult' = <<>> /\ segMessages' = <<>>)]_vars

\* A segmenter function has returned the empty sequence under the default
\* threshold.
C25_Witness ==
    /\ segImpl \in SegHelpers
    /\ segG = DefaultGapMinutes
    /\ segPc = "returned"
    /\ segMessages = <<>> /\ segResult = <<>>

\* The run is over: the loop has gone through its last batch, every
\* conversation's task has ended and the gate is back at its capacity.
RunComplete ==
    /\ orchPc = "finished"
    /\ \A c \in Convs : taskPc[c] = "done"
    /\ semValue = factCfg.max_concurrent

\* C26 (as claimed): when every invocation returns or fails and scheduling
\* is fair, the run comes to its end with every conversation processed, the
\* gate at capacity K and the final batch settled.
C26_Orig == <>RunComplete

\* range(0, len(conversation_ids), batch_size): the offsets the loop visits.
BatchStarts(batch_size) == {i \in 0..(NumConvs - 1) : i % batch_size = 0}

\* The task of conversation c has issued its agent invocation.
Invoked(c) == taskPc[c] \in {"running", "stalled", "deleting"} \/ agentOut[c].kind \in {"valid", "invalid", "nocontent", "error"}

\* C27: the batches of a run partition the conversation list in order (each
\* conversation lies in the slice of exactly one offset, and a later
\* conversation never in an earlier slice); a task is started only for a
\* conversation of the current batch that has none yet, and a conversation
\* whose agent has been invoked is never started or invoked again, whether
\* the invocation succeeded or failed.
C27_OneBatchOneInvocation ==
    /\ [](/\ \A c \in Convs :
              Cardinality({i \in BatchStarts(factCfg.batch_size) :
                              c \in BatchIds(i, factCfg.batch_size)}) = 1
          /\ \A i, j \in BatchStarts(factCfg.batch_size) :
              \A c \in BatchIds(i, factCfg.batch_size), d \in BatchIds(j, factCfg.batch_size) :
                  c < d => i <= j)
    /\ [][\A c \in Convs :
            /\ (taskPc'[c] = "waiting" /\ taskPc[c] # "waiting") =>
                  (taskPc[c] = "unborn" /\ c \in CurrentBatchIds)
            /\ (taskPc'[c] = "running" /\ taskPc[c] # "running") =>
                  (taskPc[c] = "creating" /\ ~Invoked(c))
            /\ Invoked(c) => (Invoked(c)' /\ taskPc'[c] \notin {"unborn", "waiting", "creating"})
            /\ taskPc[c] = "done" => taskPc'[c] = "done"]_vars

\* A conversation of an earlier batch ended after its agent call failed, the
\* run went on, and a conversation of a later batch is with the agent.
C27_Witness ==
    \E c, d \in Convs :
        /\ BatchOf(c) < BatchOf(d)
        /\ agentOut[c].kind \in {"invalid", "error"} /\ taskPc[c] = "done"
        /\ taskPc[d] = "running"

\* C28 (as claimed): a call on a missing source, or on a source with no
\* message for the target number, raises, and a message store that was
\* there before the call is there afterwards with the rows it had, whatever
\* recreate_db is.
C28_Orig ==
    (impPc \notin {"idle", "start"} /\ (~smsExists \/ segMessages = <<>>)) =>
        /\ impPc \in ImportErrors
        /\ kbAtCall.exists => (kbExists /\ store = kbAtCall.rows)

\* C29 (as claimed): the orchestrator sleeps only after a batch that is not
\* the last, once per such batch: when it is asleep a batch is still to
\* come, the sleeps done so far are one per batch left behind, and a
\* finished run over n batches has slept n - 1 times (a single-batch run
\* not at all).
C29_Orig ==
    /\ orchPc = "sleep" =>
          BatchNum(batchStart, factCfg.batch_size) < TotalBatches(NumConvs, factCfg.batch_size)
    /\ orchPc \in {"launch", "gather", "sleep"} =>
          sleeps = BatchNum(batchStart, factCfg.batch_size) - 1
    /\ orchPc = "finished" =>
          sleeps = TotalBatches(NumConvs, factCfg.batch_size) - 1

\* C30: on a message store without messages the pipeline returns right
\* after the fetch: no call is made (no delete, create, upsert or
\* reconfigure, no model call either) and the collection stays as it is,
\* whatever recreate_collection is and whether or not the collection exists.
C30_EmptyStoreNoCalls ==
    /\ [](store = <<>> => (calls = <<>> /\ embPc \in {"idle", "start", "done"}))
    /\ [][store = <<>> => coll' = coll]_vars

\* The pipeline has returned on an empty store with recreate_collection
\* true, and the collection that was there still holds its point.
C30_Witness ==
    /\ store = <<>>
    /\ embPc = "done"
    /\ embCfg.recreate_collection
    /\ coll.exists /\ coll.points = {StalePoint}

\* The agent's first event for conversation c carried no content.
NoContent(c) == agentOut[c].kind = "nocontent"

\* C31: a conversation whose first event carries no content ends without
\* error: its task carries no exception, no row of it is in the facts table
\* or waiting on the connection, and the task goes through the deletion of
\* its session to its end, where the session is gone and the slot is back
\* at the gate (the free slots and the tasks inside the gate always add up
\* to K).  The step that receives the empty event, and every later step of
\* that task, leaves the table, the orchestrator and every other
\* conversation's task, output, exception and session as they were.
C31_NoContentEndsQuietly ==
    /\ [](\A c \in Convs : NoContent(c) =>
             /\ taskExc[c] = "none"
             /\ RowCount(c) = 0
             /\ \A i \in 1..Len(connPending) : connPending[i].conversation_id # c
             /\ taskPc[c] \in {"deleting", "done"}
             /\ taskPc[c] = "done" => c \notin sessions
             /\ semValue + Cardinality(Admitted) = factCfg.max_concurrent)
    /\ [][\A c \in Convs :
            (NoContent(c)' /\ (~NoContent(c) \/ taskPc'[c] # taskPc[c])) =>
                /\ facts' = facts /\ connPending' = connPending
                /\ orchPc' = orchPc
                /\ \A d \in Convs \ {c} :
                      /\ taskPc'[d] = taskPc[d]
                      /\ agentOut'[d] = agentOut[d]
                      /\ taskExc'[d] = taskExc[d]
                      /\ (d \in sessions') = (d \in sessions)]_vars

\* In one batch a conversation has ended after an empty event and another
\* after its facts were saved; no session is left and the gate is full.
C31_Witness ==
    \E c, d \in Convs :
        /\ BatchOf(c) = BatchOf(d)
        /\ NoContent(c) /\ taskPc[c] = "done"
        /\ agentOut[d].kind = "valid" /\ taskPc[d] = "done" /\ RowCount(d) = MaxFacts
        /\ sessions = {}
        /\ semValue = factCfg.max_concurrent

====
